---- MODULE Spec2Model ----
(***************************************************************************)
(* scripts/prepare-upload-assets.py: one source image is decoded, rendered *)
(* twice into a square canvas (mint, thumbnail), both canvases are encoded *)
(* as WEBP into --out-dir, the three files are read back and a JSON        *)
(* manifest is printed on standard output.                                 *)
(*                                                                         *)
(* A run of the script is a sequence of steps (pc); the file system, the   *)
(* process's standard streams and exit code are state.  A second run with  *)
(* the same arguments (Rerun) is the caller invoking the script again.     *)
(***************************************************************************)
EXTENDS Integers, Sequences, FiniteSets, TLC

\* ---------------------------------------------------------------- bounds
MaxDim == 2          \* source width/height range over 0..MaxDim (Spec)
MaxSideArg == 3      \* --*-max-side ranges over MinSideArg..MaxSideArg (Spec)
RenderMaxDim == 4    \* source width/height range over 0..RenderMaxDim (SpecRender)
MaxNameLen == 3      \* input base names of up to MaxNameLen characters (SpecTitle)
MaxRuns == 2         \* how many times the caller runs the script

MinSideArg == 0 - 1  \* smallest --*-max-side tried: argparse type=int takes any integer

\* ------------------------------------------------------ program constants
MAX_MINT_DIM == 4096
MAX_THUMB_DIM == 512
DEFAULT_QUALITY == 85

ALLOWED_MIME ==
  [f \in {"JPEG", "PNG", "WEBP", "GIF"} |->
     CASE f = "JPEG" -> "image/jpeg"
       [] f = "PNG"  -> "image/png"
       [] f = "WEBP" -> "image/webp"
       [] f = "GIF"  -> "image/gif"]

\* ------------------------------------------------------------ file names
MintName == <<"m", "i", "n", "t", ".", "w", "e", "b", "p">>
ThumbName == <<"t", "h", "u", "m", "b", ".", "w", "e", "b", "p">>

Chars == {" ", "a", "."}

RECURSIVE SeqsUpTo(_)
SeqsUpTo(n) ==
  IF n = 0 THEN {<<>>}
  ELSE LET shorter == SeqsUpTo(n - 1)
       IN  shorter \cup {Append(s, c) : s \in shorter, c \in Chars}

\* os.path.join(out_dir, name): a path is a directory and a base name
PathJoin(dir, name) == [dir |-> dir, name |-> name]

\* os.path.basename
Basename(path) == path.name

OutDir == "out"
mint_path == PathJoin(OutDir, MintName)
thumb_path == PathJoin(OutDir, ThumbName)

Max(a, b) == IF a >= b THEN a ELSE b
Min(a, b) == IF a <= b THEN a ELSE b

\* ------------------------------------------------------------- contents
\* A file's content: the format its header declares, the pixel size, and the
\* pixels (px); Absent is the path with no file.
Absent == [fmt |-> "absent", w |-> 0, h |-> 0, px |-> <<"absent">>]
Stale  == [fmt |-> "WEBP", w |-> 1, h |-> 1, px |-> <<"stale">>]
NoImage == [w |-> 0 - 1, h |-> 0 - 1, px |-> <<"none">>]
NoBytes == [fmt |-> "unread", w |-> 0, h |-> 0, px |-> <<"unread">>]

\* len(bytes) and hashlib.sha256(bytes).hexdigest(): functions of the bytes,
\* the digest taken as collision free
ByteLen(bytes) == <<"len", bytes>>
Sha256Digest(bytes) == <<"sha256", bytes>>

\* ------------------------------------------------------ os.path.splitext
\* genericpath._splitext on a base name: the extension starts at the last
\* dot, unless only dots come before it.
LastDot(p) ==
  LET dots == {i \in 1..Len(p) : p[i] = "."}
  IN  IF dots = {} THEN 0 ELSE CHOOSE i \in dots : \A j \in dots : j <= i

RECURSIVE SplitextScan(_, _, _)
SplitextScan(p, filenameIndex, dotIndex) ==
  IF filenameIndex < dotIndex
  THEN IF p[filenameIndex] # "."
       THEN SubSeq(p, 1, dotIndex - 1)
       ELSE SplitextScan(p, filenameIndex + 1, dotIndex)
  ELSE p

SplitextRoot(p) ==
  LET dotIndex == LastDot(p)
  IN  IF dotIndex > 0 THEN SplitextScan(p, 1, dotIndex) ELSE p

\* str.strip(): whitespace removed from both ends
RECURSIVE LStrip(_)
LStrip(s) == IF s # <<>> /\ Head(s) = " " THEN LStrip(Tail(s)) ELSE s

RECURSIVE RStrip(_)
RStrip(s) ==
  IF s # <<>> /\ s[Len(s)] = " " THEN RStrip(SubSeq(s, 1, Len(s) - 1)) ELSE s

Strip(s) == RStrip(LStrip(s))

StemKeepsSpaces(path) == SplitextRoot(Basename(path))

\* line 128: os.path.splitext(os.path.basename(input_path))[0].strip()
Stem(path) == Strip(SplitextRoot(Basename(path)))

\* ------------------------------------------------- render_square_contain
\* scale = min(side / src_w, side / src_h) is the fraction side / ScaleDen
ScaleDenCover(src_w, src_h, side) ==
  IF side * src_h <= side * src_w THEN src_h ELSE src_w

ScaleDen(src_w, src_h, side) ==
  IF side * src_h <= side * src_w THEN src_w ELSE src_h

\* int(round(num / den)) of the float product: off a tie the nearest integer;
\* on a tie the float lands at, below or above .5 (7 * (29 / 14) rounds to 15,
\* 11 * (15 / 22) to 7), so either neighbour: tie (0 or 1) says which.
PyRound(num, den, tie) ==
  LET q == num \div den
      r == num % den
  IN  IF 2 * r < den THEN q
      ELSE IF 2 * r > den THEN q + 1
      ELSE q + tie

\* lines 44-45: max(1, int(round(dim * scale)))
OutDim(dim, src_w, src_h, side, tie) ==
  Max(1, PyRound(dim * side, ScaleDen(src_w, src_h, side), tie))

OffsetNotHalved(side, out) == side - out

\* lines 49-50: (side - out) // 2
Offset(side, out) == (side - out) \div 2

NoCall == [side |-> 0, src_w |-> 0, src_h |-> 0, out_w |-> 0, out_h |-> 0,
           offset_x |-> 0, offset_y |-> 0]

RenderInnerOnly(src, side, tie) ==
  IF src.w = 0 \/ src.h = 0
  THEN [err |-> "Invalid source dimensions", canvas |-> NoImage, call |-> NoCall]
  ELSE LET out_w == OutDim(src.w, src.w, src.h, side, tie)
           out_h == OutDim(src.h, src.w, src.h, side, tie)
           call == [side |-> side, src_w |-> src.w, src_h |-> src.h,
                    out_w |-> out_w, out_h |-> out_h,
                    offset_x |-> 0, offset_y |-> 0]
       IN  [err |-> "", call |-> call,
            canvas |-> [w |-> out_w, h |-> out_h,
                        px |-> <<"canvas", src.px, src.w, src.h,
                                 out_w, out_h, 0, 0>>]]

\* The result of render_square_contain(src, side): err is the exception's
\* message ("" when it returns), canvas the image returned, call what the
\* resize and the paste were given.  Image.new refuses a negative size.
RenderSquareContain(src, side, tie) ==
  IF src.w = 0 \/ src.h = 0
  THEN [err |-> "Invalid source dimensions", canvas |-> NoImage, call |-> NoCall]
  ELSE LET out_w == OutDim(src.w, src.w, src.h, side, tie)
           out_h == OutDim(src.h, src.w, src.h, side, tie)
           offset_x == Offset(side, out_w)
           offset_y == Offset(side, out_h)
           call == [side |-> side, src_w |-> src.w, src_h |-> src.h,
                    out_w |-> out_w, out_h |-> out_h,
                    offset_x |-> offset_x, offset_y |-> offset_y]
       IN  IF side < 0
           THEN [err |-> "Width and height must be >= 0", canvas |-> NoImage,
                 call |-> call]
           ELSE [err |-> "", call |-> call,
                 canvas |-> [w |-> side, h |-> side,
                             px |-> <<"canvas", src.px, src.w, src.h,
                                      out_w, out_h, offset_x, offset_y>>]]

\* Image.save(path, format="WEBP", quality=q): the file the encoder writes
EncodeWebp(img, quality) ==
  [fmt |-> "WEBP", w |-> img.w, h |-> img.h, px |-> <<"webp", quality, img.px>>]

\* lines 79-80: min(args.*_max_side, max_side_src)
SideFor(max_side, max_side_src) == Min(max_side, max_side_src)

\* ------------------------------------------------------------------ state
VARIABLES
  pc,             \* the step the run is at: "import", "makedirs", "open",
                  \* "format", "dims", "render_mint", "render_thumb",
                  \* "save_mint", "save_thumb", "read", "manifest", "done",
                  \* "failed"
  args,           \* the parsed command line
  fs,             \* the file at each path
  out_dir_exists, \* whether --out-dir exists
  im,             \* the image opened from input_path, with its format
  mint_side, thumb_side,
  mint_img, thumb_img,
  original_bytes, mint_bytes, thumb_bytes,
  stdout, stderr, exitCode,
  fpTie,          \* which way the float product of a rounding tie falls
  calls,          \* the calls of render_square_contain made by this run
  fsStart,        \* the files as they were when this run started
  runs, prevOut   \* the runs so far; the renditions the previous run left

locals == <<im, mint_side, thumb_side, mint_img, thumb_img,
            original_bytes, mint_bytes, thumb_bytes>>
streams == <<stdout, stderr, exitCode>>
history == <<fsStart, runs, prevOut>>
vars == <<pc, args, fs, out_dir_exists, locals, streams, fpTie, calls, history>>

input_path == args.input_path

NoExit == 0 - 1

FreshProcess ==
  /\ pc = "import"
  /\ im = NoBytes
  /\ mint_side = 0 /\ thumb_side = 0
  /\ mint_img = NoImage /\ thumb_img = NoImage
  /\ original_bytes = NoBytes /\ mint_bytes = NoBytes /\ thumb_bytes = NoBytes
  /\ stdout = <<>> /\ stderr = <<>> /\ exitCode = NoExit
  /\ calls = <<>>

\* The state when the script is first started: arguments, the source file at
\* input_path, and whatever is at the two rendition paths.
InitWith(names, fmts, dims, mintSides, thumbSides, qualities) ==
  /\ args \in [input_path : {PathJoin("in", n) : n \in names}
                            \cup {mint_path, thumb_path},
               mint_max_side : mintSides, thumb_max_side : thumbSides,
               quality : qualities]
  /\ \E source \in [fmt : fmts, w : dims, h : dims, px : {<<"orig">>}],
        old \in {Absent, Stale} :
       fs = [p \in {args.input_path, mint_path, thumb_path} |->
               IF p = args.input_path THEN source ELSE old]
  /\ out_dir_exists = (fs[mint_path] # Absent \/ fs[thumb_path] # Absent)
  /\ fpTie \in {0, 1}
  /\ fsStart = fs
  /\ runs = 1
  /\ prevOut = [mint |-> Absent, thumb |-> Absent]
  /\ FreshProcess

\* ---------------------------------------------------------------- steps
Continue(next) == pc' = next /\ UNCHANGED streams

RaiseSwallowed(message) ==
  /\ pc' = "failed"
  /\ stderr' = Append(stderr, message)
  /\ exitCode' = 0
  /\ UNCHANGED stdout

\* lines 150-154: an exception of main() is printed on standard error and
\* raised again, which ends the interpreter with exit code 1
Raise(message) ==
  /\ pc' = "failed"
  /\ stderr' = Append(stderr, message)
  /\ exitCode' = 1
  /\ UNCHANGED stdout

\* lines 9-13: Pillow is imported, or the process exits with code 2
ImportPillow ==
  /\ pc = "import"
  /\ \/ Continue("makedirs")
     \/ /\ pc' = "failed"
        /\ stderr' = Append(stderr, "Failed to import Pillow (PIL)")
        /\ exitCode' = 2
        /\ UNCHANGED stdout
  /\ UNCHANGED <<args, fs, out_dir_exists, locals, fpTie, calls, history>>

\* lines 64-66
MakeDirs ==
  /\ pc = "makedirs"
  /\ \/ Continue("open") /\ out_dir_exists' = TRUE
     \/ Raise("OSError: makedirs") /\ UNCHANGED out_dir_exists
  /\ UNCHANGED <<args, fs, locals, fpTie, calls, history>>

\* line 68: Image.open reads the header of the file at input_path
OpenImage ==
  /\ pc = "open"
  /\ \/ /\ fs[input_path] # Absent
        /\ Continue("format")
        /\ im' = fs[input_path]
     \/ Raise("OSError: cannot open image") /\ UNCHANGED im
  /\ UNCHANGED <<args, fs, out_dir_exists, mint_side, thumb_side, mint_img,
                 thumb_img, original_bytes, mint_bytes, thumb_bytes, fpTie,
                 calls, history>>

FormatCheckedAfterSave ==
  /\ pc = "format"
  /\ IF im.fmt \in DOMAIN ALLOWED_MIME
     THEN Continue("dims") /\ UNCHANGED fs
     ELSE /\ Raise("Unsupported input format")
          /\ fs' = [fs EXCEPT ![mint_path] = EncodeWebp(im, args.quality)]
  /\ UNCHANGED <<args, out_dir_exists, locals, fpTie, calls, history>>

\* lines 69-72
CheckFormat ==
  /\ pc = "format"
  /\ IF im.fmt \in DOMAIN ALLOWED_MIME
     THEN Continue("dims")
     ELSE Raise("Unsupported input format")
  /\ UNCHANGED <<args, fs, out_dir_exists, locals, fpTie, calls, history>>

\* lines 74-76
CheckDimensions ==
  /\ pc = "dims"
  /\ IF im.w < 1 \/ im.h < 1
     THEN Raise("Invalid source dimensions")
     ELSE Continue("render_mint")
  /\ UNCHANGED <<args, fs, out_dir_exists, locals, fpTie, calls, history>>

\* lines 78-80 and 82: both sides are computed, the mint canvas is rendered;
\* the pixel data is decoded here, by convert("RGBA"), and that can fail
RenderMint ==
  /\ pc = "render_mint"
  /\ LET max_side_src == Max(im.w, im.h)
         mint == SideFor(args.mint_max_side, max_side_src)
         thumb == SideFor(args.thumb_max_side, max_side_src)
         r == RenderSquareContain(im, mint, fpTie)
     IN  /\ mint_side' = mint
         /\ thumb_side' = thumb
         /\ \/ /\ calls' = Append(calls, r.call)
               /\ IF r.err = ""
                  THEN Continue("render_thumb") /\ mint_img' = r.canvas
                  ELSE Raise(r.err) /\ UNCHANGED mint_img
            \/ /\ Raise("OSError: cannot decode image")
               /\ UNCHANGED <<calls, mint_img>>
  /\ UNCHANGED <<args, fs, out_dir_exists, im, thumb_img, original_bytes,
                 mint_bytes, thumb_bytes, fpTie, history>>

\* line 83
RenderThumb ==
  /\ pc = "render_thumb"
  /\ LET r == RenderSquareContain(im, thumb_side, fpTie)
     IN  \/ /\ calls' = Append(calls, r.call)
            /\ IF r.err = ""
               THEN Continue("save_mint") /\ thumb_img' = r.canvas
               ELSE Raise(r.err) /\ UNCHANGED thumb_img
         \/ /\ Raise("MemoryError: cannot resize image")
            /\ UNCHANGED <<calls, thumb_img>>
  /\ UNCHANGED <<args, fs, out_dir_exists, im, mint_side, thumb_side, mint_img,
                 original_bytes, mint_bytes, thumb_bytes, fpTie, history>>

\* lines 85 and 87: the mint canvas is encoded over whatever is at mint_path
SaveMint ==
  /\ pc = "save_mint"
  /\ \/ /\ Continue("save_thumb")
        /\ fs' = [fs EXCEPT ![mint_path] = EncodeWebp(mint_img, args.quality)]
     \/ Raise("OSError: cannot write mint.webp") /\ UNCHANGED fs
  /\ UNCHANGED <<args, out_dir_exists, locals, fpTie, calls, history>>

\* lines 86 and 88
SaveThumb ==
  /\ pc = "save_thumb"
  /\ \/ /\ Continue("read")
        /\ fs' = [fs EXCEPT ![thumb_path] = EncodeWebp(thumb_img, args.quality)]
     \/ Raise("OSError: cannot write thumb.webp") /\ UNCHANGED fs
  /\ UNCHANGED <<args, out_dir_exists, locals, fpTie, calls, history>>

\* lines 90-95: the three files are read, after both renditions were saved
ReadBack ==
  /\ pc = "read"
  /\ \/ /\ Continue("manifest")
        /\ original_bytes' = fs[input_path]
        /\ mint_bytes' = fs[mint_path]
        /\ thumb_bytes' = fs[thumb_path]
     \/ /\ Raise("OSError: cannot read file")
        /\ UNCHANGED <<original_bytes, mint_bytes, thumb_bytes>>
  /\ UNCHANGED <<args, fs, out_dir_exists, im, mint_side, thumb_side, mint_img,
                 thumb_img, fpTie, calls, history>>

\* ------------------------------------------------------------- manifest
\* lines 26-34: the chunked SHA-256 of the file at a path (no step calls it)
sha256_hex(files, path) == Sha256Digest(files[path])

RenditionMeta(bytes, side) ==
  [mime |-> "image/webp", bytes |-> ByteLen(bytes),
   width |-> side, height |-> side, maxSide |-> side]

\* lines 97-130: the meta object, with title only for a non-empty stem
BuildMeta(path, source, obytes, mbytes, tbytes, mside, tside) ==
  LET base ==
        [description |-> "ArtMint upload smoke test",
         original |-> [filename |-> Basename(path),
                       mime |-> ALLOWED_MIME[source.fmt],
                       bytes |-> ByteLen(obytes),
                       width |-> source.w, height |-> source.h,
                       sha256 |-> Sha256Digest(obytes)],
         mint |-> RenditionMeta(mbytes, mside)
                  @@ [fit |-> "contain", format |-> "webp", quality |-> "0.85"],
         thumbnail |-> RenditionMeta(tbytes, tside),
         createdAt |-> "utcnow", appVersion |-> "smoke-test"]
  IN  IF Stem(path) # <<>> THEN base @@ [title |-> Stem(path)] ELSE base

\* lines 132-143
BuildResult(path, meta) ==
  [files |-> [tempDir |-> OutDir, originalPath |-> path,
              mintPath |-> mint_path, thumbnailPath |-> thumb_path,
              originalFilename |-> Basename(path),
              mintFilename |-> MintName, thumbnailFilename |-> ThumbName],
   meta |-> meta]

\* lines 97-146 and 151: the manifest is printed and the process exits with 0
EmitManifest ==
  /\ pc = "manifest"
  /\ pc' = "done"
  /\ stdout' = Append(stdout,
                 BuildResult(input_path,
                   BuildMeta(input_path, im, original_bytes, mint_bytes,
                             thumb_bytes, mint_side, thumb_side)))
  /\ exitCode' = 0
  /\ UNCHANGED <<args, fs, out_dir_exists, locals, stderr, fpTie, calls, history>>

\* lines 149-151: the caller starts the script again with the same arguments
\* after a run that succeeded; the files are as that run left them
Rerun ==
  /\ pc = "done"
  /\ runs < MaxRuns
  /\ pc' = "import"
  /\ im' = NoBytes
  /\ mint_side' = 0 /\ thumb_side' = 0
  /\ mint_img' = NoImage /\ thumb_img' = NoImage
  /\ original_bytes' = NoBytes /\ mint_bytes' = NoBytes /\ thumb_bytes' = NoBytes
  /\ stdout' = <<>> /\ stderr' = <<>> /\ exitCode' = NoExit
  /\ calls' = <<>>
  /\ fsStart' = fs
  /\ runs' = runs + 1
  /\ prevOut' = [mint |-> fs[mint_path], thumb |-> fs[thumb_path]]
  /\ UNCHANGED <<args, fs, out_dir_exists, fpTie>>

Next ==
  \/ ImportPillow
  \/ MakeDirs
  \/ OpenImage
  \/ CheckFormat
  \/ CheckDimensions
  \/ RenderMint
  \/ RenderThumb
  \/ SaveMint
  \/ SaveThumb
  \/ ReadBack
  \/ EmitManifest
  \/ Rerun

Formats == {"PNG", "WEBP", "BMP", ""}
Qualities == {DEFAULT_QUALITY}

\* Spec: small images, every kind of argument, the input possibly one of the
\* two rendition paths
Init ==
  InitWith({<<"a", ".", "a">>}, Formats, 0..MaxDim,
           (MinSideArg..MaxSideArg) \cup {MAX_MINT_DIM},
           (MinSideArg..MaxSideArg) \cup {MAX_THUMB_DIM}, Qualities)

Spec == Init /\ [][Next]_vars

\* SpecRender: larger images, so that roundings tie and clamp
InitRender ==
  InitWith({<<"a", ".", "a">>}, {"PNG", "BMP"}, 0..RenderMaxDim,
           (MinSideArg..RenderMaxDim) \cup {MAX_MINT_DIM},
           (1..RenderMaxDim) \cup {MAX_THUMB_DIM}, Qualities)

SpecRender == InitRender /\ [][Next]_vars

\* SpecTitle: every base name of up to MaxNameLen characters
FileNames == SeqsUpTo(MaxNameLen) \ {<<>>, <<".">>, <<".", ".">>}

InitTitle ==
  InitWith(FileNames, {"PNG", "BMP"}, 0..1,
           {MinSideArg, MAX_MINT_DIM}, {MAX_THUMB_DIM}, Qualities)

SpecTitle == InitTitle /\ [][Next]_vars

\* ================================================================ claims
Abs(x) == IF x < 0 THEN 0 - x ELSE x
Manifest == stdout[1]
Succeeded == pc = "done"
ExpectedSide(max_side) == Min(max_side, Max(im.w, im.h))

\* C1: after a successful run each rendition, as rendered and as written, is
\* a square of side min(configured max, max(source width, source height)),
\* and the manifest reports that value as its width, height and maxSide.
C1_RenditionsAreSquaresOfSide ==
  Succeeded =>
    LET m == ExpectedSide(args.mint_max_side)
        t == ExpectedSide(args.thumb_max_side)
    IN  /\ mint_img.w = m /\ mint_img.h = m
        /\ fs[mint_path].w = m /\ fs[mint_path].h = m
        /\ Manifest.meta.mint.width = m
        /\ Manifest.meta.mint.height = m
        /\ Manifest.meta.mint.maxSide = m
        /\ thumb_img.w = t /\ thumb_img.h = t
        /\ fs[thumb_path].w = t /\ fs[thumb_path].h = t
        /\ Manifest.meta.thumbnail.width = t
        /\ Manifest.meta.thumbnail.height = t
        /\ Manifest.meta.thumbnail.maxSide = t

\* a 4x2 source with --mint-max-side 3 and --thumb-max-side 2 has succeeded
C1_Witness ==
  /\ Succeeded
  /\ im.w = 4 /\ im.h = 2
  /\ args.mint_max_side = 3 /\ args.thumb_max_side = 2
  /\ fs[mint_path].w = 3 /\ fs[thumb_path].w = 2

UnsupportedFormatFailure ==
  pc = "failed" /\ stderr = <<"Unsupported input format">>

\* C2: up to the format check, and in a run that failed on an unsupported
\* format, no file is as the run did not find it: mint.webp and thumb.webp
\* are neither created nor overwritten.
C2_UnsupportedFormatWritesNothing ==
  (pc \in {"import", "makedirs", "open", "format"} \/ UnsupportedFormatFailure)
    => fs = fsStart

\* a BMP input has failed the format check with an older mint.webp in place
C2_Witness ==
  /\ UnsupportedFormatFailure
  /\ im.fmt = "BMP"
  /\ input_path \notin {mint_path, thumb_path}
  /\ fs[mint_path] = Stale

\* C3: a failed run has printed its message on standard error, exits with a
\* code other than 0 and has printed nothing on standard output; the manifest
\* is on standard output only when both renditions have been written and
\* read back, and then the exit code is 0.
C3_FailureLeavesStdoutEmpty ==
  /\ pc = "failed" =>
       /\ Len(stderr) = 1
       /\ exitCode \in {1, 2}
       /\ stdout = <<>>
  /\ stdout # <<>> =>
       /\ Succeeded /\ Len(stdout) = 1 /\ stderr = <<>>
       /\ fs[mint_path] = EncodeWebp(mint_img, args.quality)
       /\ fs[thumb_path] = EncodeWebp(thumb_img, args.quality)
       /\ mint_bytes = fs[mint_path]
       /\ thumb_bytes = fs[thumb_path]
  /\ Succeeded => exitCode = 0 /\ stdout # <<>>
  /\ pc \notin {"done", "failed"} => exitCode = NoExit /\ stdout = <<>>

\* the run has failed while encoding the thumbnail, mint.webp already written
C3_Witness ==
  /\ pc = "failed"
  /\ stderr = <<"OSError: cannot write thumb.webp">>
  /\ mint_img # NoImage
  /\ fs[mint_path] = EncodeWebp(mint_img, args.quality)

\* C4: the second run with the same arguments leaves mint.webp and thumb.webp
\* with the content the first run left.
C4_RerunLeavesSameBytes ==
  (Succeeded /\ runs >= 2) =>
    /\ fs[mint_path] = prevOut.mint
    /\ fs[thumb_path] = prevOut.thumb

\* C5: the manifest of a successful run carries one SHA-256 per file, the
\* streaming hasher's digest of the original, the mint and the thumbnail.
C5_ManifestHashesThreeFiles ==
  Succeeded =>
    /\ "sha256" \in DOMAIN Manifest.meta.original
    /\ Manifest.meta.original.sha256 = sha256_hex(fs, input_path)
    /\ "sha256" \in DOMAIN Manifest.meta.mint
    /\ Manifest.meta.mint.sha256 = sha256_hex(fs, mint_path)
    /\ "sha256" \in DOMAIN Manifest.meta.thumbnail
    /\ Manifest.meta.thumbnail.sha256 = sha256_hex(fs, thumb_path)

\* The base name without its extension, said without the scan: the extension
\* starts at the last dot that has a character other than a dot before it.
ExtensionStart(n) ==
  LET starts == {i \in 1..Len(n) :
                   /\ n[i] = "."
                   /\ \A j \in (i + 1)..Len(n) : n[j] # "."
                   /\ \E j \in 1..(i - 1) : n[j] # "."}
  IN  IF starts = {} THEN Len(n) + 1 ELSE CHOOSE i \in starts : TRUE

NameRoot(n) == SubSeq(n, 1, ExtensionStart(n) - 1)
Spaces(k) == [i \in 1..k |-> " "]

IsTrimOf(t, s) ==
  /\ t # <<>>
  /\ t[1] # " " /\ t[Len(t)] # " "
  /\ \E a, b \in 0..Len(s) : s = Spaces(a) \o t \o Spaces(b)

\* C6: meta.title is present exactly when the input's base name without its
\* extension has a character other than whitespace, and is then that root
\* with the whitespace at both ends removed.
C6_TitleIffStemNonEmpty ==
  Succeeded =>
    LET root == NameRoot(Basename(input_path))
        present == "title" \in DOMAIN Manifest.meta
    IN  /\ present <=> (\E i \in 1..Len(root) : root[i] # " ")
        /\ present => IsTrimOf(Manifest.meta.title, root)

\* the input " .a", whose stem is one space, has succeeded without a title
C6_Witness ==
  /\ Succeeded
  /\ Basename(input_path) = <<" ", ".", "a">>
  /\ "title" \notin DOMAIN Manifest.meta

\* C7: in every call of render_square_contain with side >= 1, out_w and out_h
\* are each less than one pixel from src_w * scale and src_h * scale, where
\* scale = min(side / src_w, side / src_h) = side / max(src_w, src_h).
C7_InnerWithinOnePixel ==
  \A i \in DOMAIN calls :
    LET c == calls[i]
        big == Max(c.src_w, c.src_h)
    IN  c.side >= 1 =>
          /\ Abs(c.out_w * big - c.src_w * c.side) < big
          /\ Abs(c.out_h * big - c.src_h * c.side) < big

\* a 4x1 source was rendered at side 1: the height 0.25 is clamped up to 1
C7_Witness ==
  \E i \in DOMAIN calls :
    /\ calls[i].src_w = 4 /\ calls[i].src_h = 1 /\ calls[i].side = 1
    /\ calls[i].out_w = 1 /\ calls[i].out_h = 1

\* C8: in every call of render_square_contain with side >= 1, the inner image
\* lies inside the canvas and the paddings of an axis differ by at most 1.
C8_PastedCenteredInside ==
  \A i \in DOMAIN calls :
    LET c == calls[i]
        right == c.side - c.offset_x - c.out_w
        bottom == c.side - c.offset_y - c.out_h
    IN  c.side >= 1 =>
          /\ c.offset_x >= 0 /\ c.offset_y >= 0
          /\ right >= 0 /\ bottom >= 0
          /\ Abs(c.offset_x - right) <= 1
          /\ Abs(c.offset_y - bottom) <= 1

\* a 4x1 source was rendered at side 4: 1 row above, 2 rows below
C8_Witness ==
  \E i \in DOMAIN calls :
    /\ calls[i].src_w = 4 /\ calls[i].src_h = 1 /\ calls[i].side = 4
    /\ calls[i].offset_x = 0 /\ calls[i].offset_y = 1 /\ calls[i].out_h = 1

\* C9: every call of render_square_contain is given a side of at least 1.
C9_SideIsPositive ==
  \A i \in DOMAIN calls : calls[i].side >= 1

\* C10: the manifest's original.bytes and original.sha256 are those of the
\* content that was decoded, and the input file is as it was when the run
\* started.
C10_OriginalIsWhatWasDecoded ==
  Succeeded =>
    /\ Manifest.meta.original.bytes = ByteLen(im)
    /\ Manifest.meta.original.sha256 = Sha256Digest(im)
    /\ fs[input_path] = fsStart[input_path]

====
